---- MODULE Spec2Model ----
(***************************************************************************)
(* Versioned translation store of i18n-center: the two-slot version        *)
(* history per (component, locale, stage) key, the cache-aside read paths, *)
(* the stage pipeline, the template-preserving translator and the backfill *)
(* orchestrator, modelled from backend/services/translation_service.go,    *)
(* backend/cache and the translation handlers.                             *)
(*                                                                         *)
(* A store row is a record id/comp/locale/stage/version/data/active.  The  *)
(* actor and the timestamps of a row are not modelled.  A soft-deleted row *)
(* is invisible to every gorm query, so deleting a row removes it from     *)
(* rows.  The cache is a function from cache-key strings to the marshalled *)
(* row; cacheUp tells whether Redis answers (every Get/Set/Delete returns  *)
(* an error when it does not).                                             *)
(***************************************************************************)
EXTENDS Naturals, Sequences, FiniteSets, TLC

VARIABLES
    rows,        \* the translation_versions table: the live rows
    cache,       \* Redis: cache key -> marshalled row
    cacheUp,     \* whether Redis answers
    lastOp,      \* the last completed call, its arguments and its results
    firstSaved,  \* history: key -> payload of the first save that created the key
    procs,       \* concurrent requests: where each SaveTranslation call stands
    text,        \* one OpenAIService call (Translate or TranslateJSON): its input and result
    job,         \* one BackfillTranslations request: its arguments, position and response
    catalog      \* the live rows of the applications and components tables

vars == <<rows, cache, cacheUp, lastOp, firstSaved, procs, text, job, catalog>>

storeVars == <<rows, cache, cacheUp, lastOp, firstSaved>>

\* what the sequential store machine leaves alone
auxVars == <<procs, text, job, catalog>>

(***************************************************************************)
(* Universe of the store specifications.                                   *)
(***************************************************************************)
Comps == {"c1", "c2"}
Locales == {"en"}
StageDraft == "draft"
StageStaging == "staging"
StageProduction == "production"
Stages == {StageDraft, StageStaging}
Payloads == {"P1", "P2"}

\* At most MaxKeys (component, locale, stage) keys get rows.
MaxKeys == 2
\* A bulk read asks for at most MaxBulk component ids.
MaxBulk == 2

ErrNil == "nil"
ErrRecordNotFound == "record not found"
ErrDB == "db error"
ErrKeyNotFound == "key not found"
ErrCacheDown == "cache unavailable"

\* The zero TranslationVersion: what a nil result carries.
NilRow == [id |-> 0, comp |-> "", locale |-> "", stage |-> "", version |-> 0,
           data |-> "", active |-> FALSE]

(***************************************************************************)
(* backend/cache: key generators and best-effort Get/Set/Delete.           *)
(***************************************************************************)
ComponentKey(componentID) == "component:" \o componentID

TranslationKey(componentID, locale, stage) ==
    "translation:" \o componentID \o ":" \o locale \o ":" \o stage

\* json.Marshal / json.Unmarshal of a TranslationVersion (DeletedAt is "-").
Marshal(r) == <<r.id, r.comp, r.locale, r.stage, r.version, r.data, r.active>>

Unmarshal(j) == [id |-> j[1], comp |-> j[2], locale |-> j[3], stage |-> j[4],
                 version |-> j[5], data |-> j[6], active |-> j[7]]

\* Faulty variant: a failing Redis call is swallowed and the empty destination returned.
CacheGet_SwallowError(ch, up, key) ==
    IF ~up THEN [err |-> ErrNil, val |-> NilRow]
    ELSE IF key \notin DOMAIN ch THEN [err |-> ErrKeyNotFound, val |-> NilRow]
    ELSE [err |-> ErrNil, val |-> Unmarshal(ch[key])]

CacheGet(ch, up, key) ==
    IF ~up THEN [err |-> ErrCacheDown, val |-> NilRow]
    ELSE IF key \notin DOMAIN ch THEN [err |-> ErrKeyNotFound, val |-> NilRow]
    ELSE [err |-> ErrNil, val |-> Unmarshal(ch[key])]

CacheSet(ch, up, key, value) ==
    IF up THEN (key :> Marshal(value)) @@ ch ELSE ch

\* Faulty variant: the delete never reaches Redis.
CacheDelete_Ignored(ch, up, key) == ch

CacheDelete(ch, up, key) ==
    IF up THEN [k \in DOMAIN ch \ {key} |-> ch[k]] ELSE ch

(***************************************************************************)
(* Entity store queries.                                                   *)
(***************************************************************************)
\* WHERE component_id = ? AND locale = ? AND stage = ? AND version = ?
Where(rs, c, l, s, v) ==
    {r \in rs : r.comp = c /\ r.locale = l /\ r.stage = s /\ r.version = v}

\* ... AND is_active = true
WhereActive(rs, c, l, s, v) == {r \in Where(rs, c, l, s, v) : r.active}

\* gorm First: one of the matching rows (the primary key is a random uuid),
\* ErrRecordNotFound when none matches, another error when the query fails.
First(matches, failed) ==
    IF failed THEN {[err |-> ErrDB, val |-> NilRow]}
    ELSE IF matches = {} THEN {[err |-> ErrRecordNotFound, val |-> NilRow]}
    ELSE {[err |-> ErrNil, val |-> r] : r \in matches}

\* BeforeCreate gives a new row a fresh id: here the next ordinal among the
\* rows of the same key and version.
NewID(rs, c, l, s, v) ==
    LET used == {r.id : r \in Where(rs, c, l, s, v)}
    IN CHOOSE n \in 1..(Cardinality(used) + 1) : n \notin used

NewRow(rs, c, l, s, v, d) ==
    [id |-> NewID(rs, c, l, s, v), comp |-> c, locale |-> l, stage |-> s,
     version |-> v, data |-> d, active |-> TRUE]

SameRow(a, b) ==
    /\ a.id = b.id /\ a.comp = b.comp /\ a.locale = b.locale
    /\ a.stage = b.stage /\ a.version = b.version

\* gorm Save of a loaded row: every column written, by primary key.
DBSave(rs, r) == {x \in rs : ~SameRow(x, r)} \cup {r}

\* Faulty variant: the sweep deletes from version 2 on.
CleanupOldVersions_FromTwo(rs) == {r \in rs : ~(r.version >= 2)}

\* database.CleanupOldVersions: delete every row with version > 2.
CleanupOldVersions(rs) == {r \in rs : ~(r.version > 2)}

Outcome(rs, ch, err, val) == [rows |-> rs, cache |-> ch, err |-> err, val |-> val]

(***************************************************************************)
(* TranslationService.GetTranslation.  fault: "none", "q2" (the version-2  *)
(* query fails) or "q1" (the version-1 query fails).                       *)
(***************************************************************************)
\* Faulty variant: a key without rows reads as the zero row, without an error.
GetTranslation_ZeroRowWhenMissing(rs, ch, up, c, l, s, fault) ==
    LET cacheKey == TranslationKey(c, l, s)
        cached == CacheGet(ch, up, cacheKey)
        results ==
            UNION {IF r2.err = ErrRecordNotFound
                   THEN First(WhereActive(rs, c, l, s, 1), fault = "q1")
                   ELSE {r2} : r2 \in First(WhereActive(rs, c, l, s, 2), fault = "q2")}
    IN IF cached.err = ErrNil
       THEN {Outcome(rs, ch, ErrNil, cached.val)}
       ELSE {IF result.err # ErrNil
             THEN Outcome(rs, ch, ErrNil, NilRow)
             ELSE Outcome(rs, CacheSet(ch, up, cacheKey, result.val), ErrNil, result.val)
             : result \in results}

\* Faulty variant: any error of the version-2 query falls back to version 1.
GetTranslation_FallsBackOnAnyError(rs, ch, up, c, l, s, fault) ==
    LET cacheKey == TranslationKey(c, l, s)
        cached == CacheGet(ch, up, cacheKey)
        results ==
            UNION {IF r2.err # ErrNil
                   THEN First(WhereActive(rs, c, l, s, 1), fault = "q1")
                   ELSE {r2} : r2 \in First(WhereActive(rs, c, l, s, 2), fault = "q2")}
    IN IF cached.err = ErrNil
       THEN {Outcome(rs, ch, ErrNil, cached.val)}
       ELSE {IF result.err # ErrNil
             THEN Outcome(rs, ch, result.err, NilRow)
             ELSE Outcome(rs, CacheSet(ch, up, cacheKey, result.val), ErrNil, result.val)
             : result \in results}

GetTranslation(rs, ch, up, c, l, s, fault) ==
    LET cacheKey == TranslationKey(c, l, s)
        cached == CacheGet(ch, up, cacheKey)
        results ==
            UNION {IF r2.err = ErrRecordNotFound
                   THEN First(WhereActive(rs, c, l, s, 1), fault = "q1")
                   ELSE {r2} : r2 \in First(WhereActive(rs, c, l, s, 2), fault = "q2")}
    IN IF cached.err = ErrNil
       THEN {Outcome(rs, ch, ErrNil, cached.val)}
       ELSE {IF result.err # ErrNil
             THEN Outcome(rs, ch, result.err, NilRow)
             ELSE Outcome(rs, CacheSet(ch, up, cacheKey, result.val), ErrNil, result.val)
             : result \in results}

(***************************************************************************)
(* TranslationService.SaveTranslation.  fault: "none", "write2" (the       *)
(* create or update of version 2 fails), "create1" (the create of          *)
(* version 1 fails) or "cleanup" (the delete of CleanupOldVersions fails). *)
(***************************************************************************)
\* Lines 187-209: create version 2, or overwrite the found one in place.
WriteVersion2(rs, c, l, s, data, found) ==
    IF found.err = ErrRecordNotFound
    THEN LET created == NewRow(rs, c, l, s, 2, data)
         IN [rows |-> rs \cup {created}, existing |-> created]
    ELSE LET updated == [found.val EXCEPT !.data = data]
         IN [rows |-> DBSave(rs, updated), existing |-> updated]

\* Faulty variant: version 1 follows every save.
EnsureVersion1_Overwrite(rs, c, l, s, data, beforeSave, fault) ==
    IF beforeSave.err = ErrRecordNotFound
    THEN rs \cup {NewRow(rs, c, l, s, 1, data)}
    ELSE DBSave(rs, [beforeSave.val EXCEPT !.data = data])

\* Lines 211-227: create version 1 from the saved data when none exists; the
\* error of that create is dropped.
EnsureVersion1(rs, c, l, s, data, beforeSave, fault) ==
    IF beforeSave.err = ErrRecordNotFound /\ fault # "create1"
    THEN rs \cup {NewRow(rs, c, l, s, 1, data)}
    ELSE rs

\* Line 234: the sweep, its error dropped.
Sweep(rs, fault) == IF fault = "cleanup" THEN rs ELSE CleanupOldVersions(rs)

SaveTranslation(rs, ch, up, c, l, s, data, fault) ==
    LET invalidated ==
            CacheDelete(CacheDelete(ch, up, TranslationKey(c, l, s)), up, ComponentKey(c))
    IN UNION {IF fault = "write2"
              THEN {Outcome(rs, ch, ErrDB, NilRow)}
              ELSE LET w == WriteVersion2(rs, c, l, s, data, found)
                   IN {Outcome(Sweep(EnsureVersion1(w.rows, c, l, s, data, beforeSave, fault),
                                     fault),
                               invalidated, ErrNil, w.existing)
                       : beforeSave \in First(Where(w.rows, c, l, s, 1), FALSE)}
              : found \in First(Where(rs, c, l, s, 2), FALSE)}

(***************************************************************************)
(* TranslationService.RevertTranslation.  When version 2 is missing it is  *)
(* created from version 1 and the call returns at once (line 263).         *)
(***************************************************************************)
\* Faulty variant: version 2 is saved back without taking version 1's data.
RevertTranslation_KeepCurrent(rs, ch, up, c, l, s) ==
    UNION {IF version1.err # ErrNil
           THEN {Outcome(rs, ch, "no previous version found", NilRow)}
           ELSE {IF version2.err = ErrRecordNotFound
                 THEN Outcome(rs \cup {NewRow(rs, c, l, s, 2, version1.val.data)},
                              ch, ErrNil, NilRow)
                 ELSE Outcome(DBSave(rs, version2.val),
                              CacheDelete(ch, up, TranslationKey(c, l, s)), ErrNil, NilRow)
                 : version2 \in First(Where(rs, c, l, s, 2), FALSE)}
           : version1 \in First(Where(rs, c, l, s, 1), FALSE)}

\* Faulty variant: the cache entry is deleted before version 1 is looked up.
RevertTranslation_InvalidatesFirst(rs, ch, up, c, l, s) ==
    UNION {IF version1.err # ErrNil
           THEN {Outcome(rs, CacheDelete(ch, up, TranslationKey(c, l, s)),
                         "no previous version found", NilRow)}
           ELSE {IF version2.err = ErrRecordNotFound
                 THEN Outcome(rs \cup {NewRow(rs, c, l, s, 2, version1.val.data)},
                              CacheDelete(ch, up, TranslationKey(c, l, s)), ErrNil, NilRow)
                 ELSE Outcome(DBSave(rs, [version2.val EXCEPT !.data = version1.val.data]),
                              CacheDelete(ch, up, TranslationKey(c, l, s)), ErrNil, NilRow)
                 : version2 \in First(Where(rs, c, l, s, 2), FALSE)}
           : version1 \in First(Where(rs, c, l, s, 1), FALSE)}

RevertTranslation(rs, ch, up, c, l, s) ==
    UNION {IF version1.err # ErrNil
           THEN {Outcome(rs, ch, "no previous version found", NilRow)}
           ELSE {IF version2.err = ErrRecordNotFound
                 THEN Outcome(rs \cup {NewRow(rs, c, l, s, 2, version1.val.data)},
                              ch, ErrNil, NilRow)
                 ELSE Outcome(DBSave(rs, [version2.val EXCEPT !.data = version1.val.data]),
                              CacheDelete(ch, up, TranslationKey(c, l, s)), ErrNil, NilRow)
                 : version2 \in First(Where(rs, c, l, s, 2), FALSE)}
           : version1 \in First(Where(rs, c, l, s, 1), FALSE)}

(***************************************************************************)
(* TranslationService.DeployToStage.                                       *)
(***************************************************************************)
\* Faulty variant: the two stage arguments are swapped.
DeployToStage_Swapped(rs, ch, up, c, l, fromStage, toStage) ==
    UNION {IF source.err # ErrNil
           THEN {Outcome(source.rows, source.cache, "source translation not found", NilRow)}
           ELSE {Outcome(saved.rows, saved.cache, saved.err, NilRow)
                 : saved \in SaveTranslation(source.rows, source.cache, up, c, l, fromStage,
                                             source.val.data, "none")}
           : source \in GetTranslation(rs, ch, up, c, l, toStage, "none")}

\* Faulty variant: only draft -> staging and staging -> production are let through.
DeployToStage_ForwardOnly(rs, ch, up, c, l, fromStage, toStage) ==
    IF <<fromStage, toStage>> \notin {<<StageDraft, StageStaging>>,
                                      <<StageStaging, StageProduction>>}
    THEN {Outcome(rs, ch, "invalid stage transition", NilRow)}
    ELSE UNION {IF source.err # ErrNil
                THEN {Outcome(source.rows, source.cache, "source translation not found",
                              NilRow)}
                ELSE {Outcome(saved.rows, saved.cache, saved.err, NilRow)
                      : saved \in SaveTranslation(source.rows, source.cache, up, c, l,
                                                  toStage, source.val.data, "none")}
                : source \in GetTranslation(rs, ch, up, c, l, fromStage, "none")}

DeployToStage(rs, ch, up, c, l, fromStage, toStage) ==
    UNION {IF source.err # ErrNil
           THEN {Outcome(source.rows, source.cache, "source translation not found", NilRow)}
           ELSE {Outcome(saved.rows, saved.cache, saved.err, NilRow)
                 : saved \in SaveTranslation(source.rows, source.cache, up, c, l, toStage,
                                             source.val.data, "none")}
           : source \in GetTranslation(rs, ch, up, c, l, fromStage, "none")}

(***************************************************************************)
(* TranslationService.GetMultipleTranslations.  componentIDs is the        *)
(* requested list.  fault: "none", "q2" or "q1" (that batched query fails).*)
(***************************************************************************)
Range(seq) == {seq[i] : i \in 1..Len(seq)}

\* One row per component among the rows a batched Find returned; with several
\* rows for a component the last one in the unordered result wins.
OnePerComponent(found) ==
    {f \in [{r.comp : r \in found} -> found] : \A c \in DOMAIN f : f[c].comp = c}

\* Faulty variant: the batched query forgets the stage.
FindIn_AnyStage(rs, componentIDs, l, s, v) ==
    {r \in rs : r.comp \in componentIDs /\ r.locale = l /\ r.active /\ r.version = v}

\* WHERE component_id IN ? AND locale = ? AND stage = ? AND is_active = ? AND version = ?
FindIn(rs, componentIDs, l, s, v) ==
    {r \in rs : r.comp \in componentIDs /\ r.locale = l /\ r.stage = s
                /\ r.active /\ r.version = v}

RECURSIVE CacheEach(_, _, _, _, _)
\* cache.Set of every row of the map f, each under its own key
CacheEach(ch, up, f, l, s) ==
    IF DOMAIN f = {} THEN ch
    ELSE LET c == CHOOSE x \in DOMAIN f : TRUE
         IN CacheEach(CacheSet(ch, up, TranslationKey(c, l, s), f[c]), up,
                      [x \in DOMAIN f \ {c} |-> f[x]], l, s)

\* Faulty variant: the version-1 query asks for every cache-missed component again.
GetMultipleTranslations_RequeriesAll(rs, ch, up, componentIDs, l, s, fault) ==
    LET ids == Range(componentIDs)
        hit(c) == CacheGet(ch, up, TranslationKey(c, l, s))
        hits == [c \in {x \in ids : hit(x).err = ErrNil} |-> hit(c).val]
        missingFromCache == ids \ DOMAIN hits
        translations == FindIn(rs, missingFromCache, l, s, 2)
        stillMissing == missingFromCache \ {r.comp : r \in translations}
        version1Translations ==
            IF fault = "q1" THEN {} ELSE FindIn(rs, stillMissing, l, s, 1)
        query2 == [version |-> 2, ids |-> missingFromCache]
        query1 == [version |-> 1, ids |-> missingFromCache]
    IN IF missingFromCache = {}
       THEN {[rows |-> rs, cache |-> ch, err |-> ErrNil, res |-> hits, queries |-> <<>>]}
       ELSE IF fault = "q2"
       THEN {[rows |-> rs, cache |-> ch, err |-> ErrNil, res |-> hits,
              queries |-> <<query2>>]}
       ELSE {[rows |-> rs,
              cache |-> CacheEach(CacheEach(ch, up, f2, l, s), up, f1, l, s),
              err |-> ErrNil,
              res |-> f1 @@ f2 @@ hits,
              queries |-> IF stillMissing = {} THEN <<query2>> ELSE <<query2, query1>>]
             : f2 \in OnePerComponent(translations),
               f1 \in OnePerComponent(version1Translations)}

\* queries: the batched store queries the call issued, in order
GetMultipleTranslations(rs, ch, up, componentIDs, l, s, fault) ==
    LET ids == Range(componentIDs)
        hit(c) == CacheGet(ch, up, TranslationKey(c, l, s))
        hits == [c \in {x \in ids : hit(x).err = ErrNil} |-> hit(c).val]
        missingFromCache == ids \ DOMAIN hits
        translations == FindIn(rs, missingFromCache, l, s, 2)
        stillMissing == missingFromCache \ {r.comp : r \in translations}
        version1Translations ==
            IF fault = "q1" THEN {} ELSE FindIn(rs, stillMissing, l, s, 1)
        query2 == [version |-> 2, ids |-> missingFromCache]
        query1 == [version |-> 1, ids |-> stillMissing]
    IN IF missingFromCache = {}
       THEN {[rows |-> rs, cache |-> ch, err |-> ErrNil, res |-> hits, queries |-> <<>>]}
       ELSE IF fault = "q2"
       THEN {[rows |-> rs, cache |-> ch, err |-> ErrNil, res |-> hits,
              queries |-> <<query2>>]}
       ELSE {[rows |-> rs,
              cache |-> CacheEach(CacheEach(ch, up, f2, l, s), up, f1, l, s),
              err |-> ErrNil,
              res |-> f1 @@ f2 @@ hits,
              queries |-> IF stillMissing = {} THEN <<query2>> ELSE <<query2, query1>>]
             : f2 \in OnePerComponent(translations),
               f1 \in OnePerComponent(version1Translations)}

NoRes == [c \in {} |-> NilRow]

(***************************************************************************)
(* TranslationService.GetMultipleTranslationsByCodes.  cat is the catalog; *)
(* an application's id is identified with its unique code.                 *)
(***************************************************************************)
RECURSIVE SeqOf(_)
\* the elements of a finite set in some order
SeqOf(S) ==
    IF S = {} THEN <<>>
    ELSE LET x == CHOOSE y \in S : TRUE IN <<x>> \o SeqOf(S \ {x})

\* Faulty variant: the codes that did not resolve are skipped.
GetMultipleTranslationsByCodes_SkipMissing(rs, ch, up, cat, applicationCode, componentCodes, l, s) ==
    LET components ==
            {k \in cat.components : k.code \in Range(componentCodes) /\ k.app = applicationCode}
        idToCode == [id \in {k.id : k \in components} |->
                        (CHOOSE k \in components : k.id = id).code]
    IN IF applicationCode \notin cat.applications
       THEN {[rows |-> rs, cache |-> ch, err |-> "application not found", res |-> NoRes]}
       ELSE {[rows |-> o.rows, cache |-> o.cache, err |-> o.err,
              res |-> [code \in {idToCode[id] : id \in DOMAIN o.res \cap DOMAIN idToCode} |->
                          o.res[CHOOSE id \in DOMAIN o.res \cap DOMAIN idToCode :
                                    idToCode[id] = code]]]
             : o \in GetMultipleTranslations(rs, ch, up, SeqOf(DOMAIN idToCode), l, s, "none")}

GetMultipleTranslationsByCodes(rs, ch, up, cat, applicationCode, componentCodes, l, s) ==
    LET components ==
            {k \in cat.components : k.code \in Range(componentCodes) /\ k.app = applicationCode}
        codeToID == [code \in {k.code : k \in components} |->
                        (CHOOSE k \in components : k.code = code).id]
        idToCode == [id \in {k.id : k \in components} |->
                        (CHOOSE k \in components : k.id = id).code]
        missingCodes == SelectSeq(componentCodes, LAMBDA code : code \notin DOMAIN codeToID)
    IN IF applicationCode \notin cat.applications
       THEN {[rows |-> rs, cache |-> ch, err |-> "application not found", res |-> NoRes]}
       ELSE IF Len(missingCodes) > 0
       THEN {[rows |-> rs, cache |-> ch, err |-> "component codes not found", res |-> NoRes]}
       ELSE {[rows |-> o.rows, cache |-> o.cache, err |-> o.err,
              res |-> [code \in {idToCode[id] : id \in DOMAIN o.res \cap DOMAIN idToCode} |->
                          o.res[CHOOSE id \in DOMAIN o.res \cap DOMAIN idToCode :
                                    idToCode[id] = code]]]
             : o \in GetMultipleTranslations(rs, ch, up, SeqOf(DOMAIN idToCode), l, s, "none")}

(***************************************************************************)
(* The store machine: one action per service operation, each a whole call. *)
(* lastOp records the last completed call: its arguments and what it       *)
(* returned.                                                               *)
(***************************************************************************)

NoOp == [op |-> "none", comp |-> "", locale |-> "", stage |-> "", toStage |-> "",
         ids |-> <<>>, app |-> "", codes |-> <<>>, data |-> "", fault |-> "none",
         err |-> ErrNil, val |-> NilRow, res |-> NoRes, queries |-> <<>>, swept |-> {}]

KeysOf(rs) == {<<r.comp, r.locale, r.stage>> : r \in rs}

BulkRequests == UNION {[1..n -> Comps] : n \in 0..MaxBulk}

Key(c, l, s) == <<c, l, s>>

\* slot 2 of the key, else slot 1: what the store holds as the key's payload
StoredPayloads(rs, c, l, s) ==
    IF WhereActive(rs, c, l, s, 2) # {}
    THEN {r.data : r \in WhereActive(rs, c, l, s, 2)}
    ELSE {r.data : r \in WhereActive(rs, c, l, s, 1)}

\* History of a successful save of newRows' slot 2 to the key (c, l, s).
FirstAfter(c, l, s, newRows) ==
    IF Key(c, l, s) \in KeysOf(rows) THEN firstSaved
    ELSE (Key(c, l, s) :> (CHOOSE d \in StoredPayloads(newRows, c, l, s) : TRUE)) @@ firstSaved

\* The store starts empty and the cache cold; Redis is reachable for the whole
\* behaviour or for none of it.
Idle == [pc |-> "idle", comp |-> "", locale |-> "", stage |-> "", data |-> "",
         found |-> [err |-> ErrNil, val |-> NilRow],
         existing |-> NilRow,
         beforeSave |-> [err |-> ErrNil, val |-> NilRow]]

Procs == {"p1", "p2"}

NoJob == [pc |-> "idle", comp |-> "", source |-> "", stage |-> "", targets |-> <<>>,
          i |-> 0, data |-> "", translated |-> <<>>, calls |-> <<>>, results |-> <<>>,
          reads |-> 0, inputs |-> <<>>, status |-> 0, err |-> ErrNil]

\* Applications by code; components with their code and owning application.
Catalog ==
    [applications |-> {"appA", "appB"},
     components |-> {[id |-> "c1", code |-> "header", app |-> "appA"],
                     [id |-> "c2", code |-> "footer", app |-> "appA"],
                     [id |-> "c3", code |-> "header", app |-> "appB"]}]

NoText == [original |-> <<>>, engine |-> <<>>, engineFails |-> FALSE, pc |-> "none",
           err |-> ErrNil, result |-> <<>>]

Init ==
    /\ rows = {}
    /\ cache = NoRes
    /\ cacheUp \in BOOLEAN
    /\ lastOp = NoOp
    /\ firstSaved = NoRes
    /\ procs = [p \in Procs |-> Idle]
    /\ text = NoText
    /\ job = NoJob
    /\ catalog = Catalog

Save(c, l, s, data) ==
    \E o \in SaveTranslation(rows, cache, cacheUp, c, l, s, data, "none") :
        /\ Cardinality(KeysOf(o.rows)) <= MaxKeys
        /\ rows' = o.rows
        /\ cache' = o.cache
        /\ lastOp' = [NoOp EXCEPT !.op = "Save", !.comp = c, !.locale = l, !.stage = s,
                                  !.data = data, !.err = o.err, !.val = o.val]
        /\ firstSaved' = FirstAfter(c, l, s, o.rows)
        /\ UNCHANGED <<cacheUp, auxVars>>

Read(c, l, s) ==
    \E o \in GetTranslation(rows, cache, cacheUp, c, l, s, "none") :
        /\ rows' = o.rows
        /\ cache' = o.cache
        /\ lastOp' = [NoOp EXCEPT !.op = "Read", !.comp = c, !.locale = l, !.stage = s,
                                  !.err = o.err, !.val = o.val]
        /\ UNCHANGED <<cacheUp, firstSaved, auxVars>>

BulkRead(ids, l, s) ==
    \E o \in GetMultipleTranslations(rows, cache, cacheUp, ids, l, s, "none") :
        /\ rows' = o.rows
        /\ cache' = o.cache
        /\ lastOp' = [NoOp EXCEPT !.op = "BulkRead", !.ids = ids, !.locale = l, !.stage = s,
                                  !.err = o.err, !.res = o.res]
        /\ UNCHANGED <<cacheUp, firstSaved, auxVars>>

Revert(c, l, s) ==
    \E o \in RevertTranslation(rows, cache, cacheUp, c, l, s) :
        /\ rows' = o.rows
        /\ cache' = o.cache
        \* data: the payload that was current when the revert was called
        /\ lastOp' = [NoOp EXCEPT !.op = "Revert", !.comp = c, !.locale = l, !.stage = s,
                                  !.data = IF o.err = ErrNil /\ StoredPayloads(rows, c, l, s) # {}
                                           THEN CHOOSE d \in StoredPayloads(rows, c, l, s) : TRUE
                                           ELSE "",
                                  !.err = o.err]
        /\ UNCHANGED <<cacheUp, firstSaved, auxVars>>

Deploy(c, l, fromStage, toStage) ==
    \E o \in DeployToStage(rows, cache, cacheUp, c, l, fromStage, toStage) :
        /\ Cardinality(KeysOf(o.rows)) <= MaxKeys
        /\ rows' = o.rows
        /\ cache' = o.cache
        /\ lastOp' = [NoOp EXCEPT !.op = "Deploy", !.comp = c, !.locale = l,
                                  !.stage = fromStage, !.toStage = toStage, !.err = o.err]
        /\ IF o.err = ErrNil
           THEN firstSaved' = FirstAfter(c, l, toStage, o.rows)
           ELSE UNCHANGED firstSaved
        /\ UNCHANGED <<cacheUp, auxVars>>

\* A cache entry reaches its one-hour TTL.
Expire(key) ==
    /\ key \in DOMAIN cache
    /\ cache' = [k \in DOMAIN cache \ {key} |-> cache[k]]
    /\ UNCHANGED <<rows, cacheUp, lastOp, firstSaved, auxVars>>

Next ==
    \/ \E c \in Comps, l \in Locales, s \in Stages, data \in Payloads : Save(c, l, s, data)
    \/ \E c \in Comps, l \in Locales, s \in Stages : Read(c, l, s)
    \/ \E ids \in BulkRequests, l \in Locales, s \in Stages : BulkRead(ids, l, s)
    \/ \E c \in Comps, l \in Locales, s \in Stages : Revert(c, l, s)
    \/ \E c \in Comps, l \in Locales, fromStage \in Stages, toStage \in Stages :
           Deploy(c, l, fromStage, toStage)
    \/ \E key \in DOMAIN cache : Expire(key)

Spec == Init /\ [][Next]_vars

(***************************************************************************)
(* Concurrent requests.  Each request handler runs SaveTranslation on its  *)
(* own goroutine: the queries and writes of lines 184-234 are separate     *)
(* statements against the shared store, and the statements of different    *)
(* calls interleave.  procs[p] holds the arguments and the locals          *)
(* (existing / beforeSave) of the call p is running.                       *)
(***************************************************************************)
ConcInit ==
    /\ text = NoText
    /\ job = NoJob
    /\ catalog = Catalog
    /\ rows = {}
    /\ cache = NoRes
    /\ cacheUp = TRUE
    /\ lastOp = NoOp
    /\ firstSaved = NoRes
    /\ procs = [p \in Procs |-> Idle]
    /\ text = NoText
    /\ job = NoJob
    /\ catalog = Catalog

Step(p, pc, next) ==
    /\ procs[p].pc = pc
    /\ procs' = [procs EXCEPT ![p] = next]

\* the handler calls SaveTranslation(componentID, locale, stage, data, userID)
SaveCall(p, c, l, s, data) ==
    /\ Step(p, "idle", [Idle EXCEPT !.pc = "find2", !.comp = c, !.locale = l,
                                    !.stage = s, !.data = data])
    /\ UNCHANGED <<rows, cache, cacheUp, lastOp, firstSaved, text, job, catalog>>

\* lines 183-185: look version 2 up
SaveFind2(p) ==
    LET q == procs[p]
    IN \E found \in First(Where(rows, q.comp, q.locale, q.stage, 2), FALSE) :
           /\ Step(p, "find2", [q EXCEPT !.pc = "write2", !.found = found])
           /\ UNCHANGED <<rows, cache, cacheUp, lastOp, firstSaved, text, job, catalog>>

\* lines 187-209: create it, or save the loaded row back with the new data
SaveWrite2(p) ==
    LET q == procs[p]
        w == WriteVersion2(rows, q.comp, q.locale, q.stage, q.data, q.found)
    IN /\ Step(p, "write2", [q EXCEPT !.pc = "find1", !.existing = w.existing])
       /\ rows' = w.rows
       /\ UNCHANGED <<cache, cacheUp, lastOp, firstSaved, text, job, catalog>>

\* lines 212-214: look version 1 up
SaveFind1(p) ==
    LET q == procs[p]
    IN \E beforeSave \in First(Where(rows, q.comp, q.locale, q.stage, 1), FALSE) :
           /\ Step(p, "find1", [q EXCEPT !.pc = "create1", !.beforeSave = beforeSave])
           /\ UNCHANGED <<rows, cache, cacheUp, lastOp, firstSaved, text, job, catalog>>

\* lines 216-227: create version 1 when the lookup found none
SaveCreate1(p) ==
    LET q == procs[p]
    IN /\ Step(p, "create1", [q EXCEPT !.pc = "invalidate"])
       /\ rows' = EnsureVersion1(rows, q.comp, q.locale, q.stage, q.data, q.beforeSave, "none")
       /\ UNCHANGED <<cache, cacheUp, lastOp, firstSaved, text, job, catalog>>

\* Faulty variant: only the translation key is deleted, the component key stays.
SaveInvalidate_TranslationKeyOnly(p) ==
    LET q == procs[p]
    IN /\ Step(p, "invalidate", [q EXCEPT !.pc = "cleanup"])
       /\ cache' = CacheDelete(cache, cacheUp, TranslationKey(q.comp, q.locale, q.stage))
       /\ UNCHANGED <<rows, cacheUp, lastOp, firstSaved, text, job, catalog>>

\* lines 229-231: invalidate the cache
SaveInvalidate(p) ==
    LET q == procs[p]
    IN /\ Step(p, "invalidate", [q EXCEPT !.pc = "cleanup"])
       /\ cache' = CacheDelete(CacheDelete(cache, cacheUp,
                                           TranslationKey(q.comp, q.locale, q.stage)),
                               cacheUp, ComponentKey(q.comp))
       /\ UNCHANGED <<rows, cacheUp, lastOp, firstSaved, text, job, catalog>>

\* lines 233-236: sweep and return
SaveReturn(p) ==
    LET q == procs[p]
    IN /\ Step(p, "cleanup", Idle)
       /\ rows' = CleanupOldVersions(rows)
       /\ lastOp' = [NoOp EXCEPT !.op = "Save", !.comp = q.comp, !.locale = q.locale,
                                 !.stage = q.stage, !.data = q.data, !.val = q.existing]
       /\ UNCHANGED <<cache, cacheUp, firstSaved, text, job, catalog>>

ConcNext ==
    \/ \E p \in Procs, c \in {"c1"}, l \in Locales, s \in {StageDraft}, data \in Payloads :
           SaveCall(p, c, l, s, data)
    \/ \E p \in Procs : SaveFind2(p)
    \/ \E p \in Procs : SaveWrite2(p)
    \/ \E p \in Procs : SaveFind1(p)
    \/ \E p \in Procs : SaveCreate1(p)
    \/ \E p \in Procs : SaveInvalidate(p)
    \/ \E p \in Procs : SaveReturn(p)

ConcSpec == ConcInit /\ [][ConcNext]_vars

(***************************************************************************)
(* Template-preserving translation.  A text is a sequence of characters.   *)
(***************************************************************************)
\* strings.Contains(s, sub)
Contains(s, sub) ==
    \E k \in 1..(Len(s) + 1) :
        k + Len(sub) - 1 <= Len(s) /\ SubSeq(s, k, k + Len(sub) - 1) = sub

\* strings.Replace(s, old, new, 1): the first occurrence of old replaced
ReplaceFirst(s, old, new) ==
    IF ~Contains(s, old) THEN s
    ELSE LET k == CHOOSE i \in 1..Len(s) :
                      /\ i + Len(old) - 1 <= Len(s)
                      /\ SubSeq(s, i, i + Len(old) - 1) = old
                      /\ \A j \in 1..(i - 1) : SubSeq(s, j, j + Len(old) - 1) # old
         IN SubSeq(s, 1, k - 1) \o new \o SubSeq(s, k + Len(old), Len(s))

\* Faulty variant: the match is greedy and runs to the last "]" of the text.
NextClose_Last(t, i) ==
    IF \E j \in i..Len(t) : t[j] = "]"
    THEN CHOOSE j \in i..Len(t) : t[j] = "]" /\ \A k \in (j + 1)..Len(t) : t[k] # "]"
    ELSE 0

\* the position of the first "]" at or after position i, 0 when there is none
NextClose(t, i) ==
    IF \E j \in i..Len(t) : t[j] = "]"
    THEN CHOOSE j \in i..Len(t) : t[j] = "]" /\ \A k \in i..(j - 1) : t[k] # "]"
    ELSE 0

RECURSIVE FindAllFrom(_, _)
\* regexp \[([^\]]+)\] FindAllStringSubmatch from position i on: the leftmost
\* matches, not overlapping, each as <<whole match, group 1>>
FindAllFrom(t, i) ==
    IF i > Len(t) THEN <<>>
    ELSE LET j == NextClose(t, i + 1)
         IN IF t[i] = "[" /\ j >= i + 2
            THEN <<<<SubSeq(t, i, j), SubSeq(t, i + 1, j - 1)>>>> \o FindAllFrom(t, j + 1)
            ELSE FindAllFrom(t, i + 1)

FindAllStringSubmatch(t) == FindAllFrom(t, 1)

ExtractTemplateValues(t) ==
    LET matches == FindAllStringSubmatch(t)
    IN [i \in 1..Len(matches) |-> matches[i][2]]

\* fmt.Sprintf("[%s]", value)
Placeholder(value) == <<"[">> \o value \o <<"]">>

RECURSIVE PreserveFrom_AppendsMissing(_, _, _)
\* Faulty variant: a placeholder without a token at its position is appended.
PreserveFrom_AppendsMissing(templateValues, i, result) ==
    IF i > Len(templateValues) THEN result
    ELSE LET placeholder == Placeholder(templateValues[i])
             matches == FindAllStringSubmatch(result)
         IN PreserveFrom_AppendsMissing(templateValues, i + 1,
                IF Contains(result, placeholder) THEN result
                ELSE IF i - 1 < Len(matches)
                THEN ReplaceFirst(result, matches[i][1], placeholder)
                ELSE result \o placeholder)

RECURSIVE PreserveFrom(_, _, _)
\* the loop of lines 313-326 from index i on, result being the text so far
PreserveFrom(templateValues, i, result) ==
    IF i > Len(templateValues) THEN result
    ELSE LET placeholder == Placeholder(templateValues[i])
             matches == FindAllStringSubmatch(result)
         IN PreserveFrom(templateValues, i + 1,
                IF ~Contains(result, placeholder) /\ i - 1 < Len(matches)
                THEN ReplaceFirst(result, matches[i][1], placeholder)
                ELSE result)

PreserveTemplateValues(original, translatedText) ==
    LET templateValues == ExtractTemplateValues(original)
    IN IF Len(templateValues) = 0 THEN translatedText
       ELSE PreserveFrom(templateValues, 1, translatedText)

RECURSIVE TrimSpace(_)
\* strings.TrimSpace
TrimSpace(t) ==
    IF t = <<>> THEN t
    ELSE IF Head(t) = " " THEN TrimSpace(Tail(t))
    ELSE IF t[Len(t)] = " " THEN TrimSpace(SubSeq(t, 1, Len(t) - 1))
    ELSE t

\* OpenAIService.Translate once the engine has answered (lines 407-432): an
\* engine failure is returned as the error, else the trimmed answer goes
\* through PreserveTemplateValues.
ErrOpenAI == "OpenAI API error"

Translate(original, engine, engineFails) ==
    IF engineFails THEN [err |-> ErrOpenAI, result |-> <<>>]
    ELSE [err |-> ErrNil, result |-> PreserveTemplateValues(original, TrimSpace(engine))]

\* Texts are built from these pieces.
Pieces == {<<"[", "a", "]">>, <<"[", "b", "]">>, <<"x">>, <<"[">>, <<"]">>, <<" ">>}

\* A text to translate has at most MaxOriginal pieces, the engine's answer at
\* most MaxEngine.
MaxOriginal == 2
MaxEngine == 3

RECURSIVE TextsUpTo(_)
TextsUpTo(n) ==
    IF n = 0 THEN {<<>>}
    ELSE TextsUpTo(n - 1) \cup {t \o q : t \in TextsUpTo(n - 1), q \in Pieces}

TextInit ==
    /\ rows = {}
    /\ cache = NoRes
    /\ cacheUp = TRUE
    /\ lastOp = NoOp
    /\ firstSaved = NoRes
    /\ job = NoJob
    /\ catalog = Catalog
    /\ procs = [p \in Procs |-> Idle]
    /\ \E original \in TextsUpTo(MaxOriginal), engine \in TextsUpTo(MaxEngine),
          engineFails \in BOOLEAN :
           text = [NoText EXCEPT !.original = original, !.engine = engine,
                                 !.engineFails = engineFails, !.pc = "called"]

TranslateReturn ==
    /\ text.pc = "called"
    /\ LET r == Translate(text.original, text.engine, text.engineFails)
       IN text' = [text EXCEPT !.pc = "returned", !.err = r.err, !.result = r.result]
    /\ UNCHANGED <<storeVars, procs, job, catalog>>

TextNext == TranslateReturn

TextSpec == TextInit /\ [][TextNext]_vars

(***************************************************************************)
(* OpenAIService.TranslateJSON.  A payload is a map from keys to values; a *)
(* value is a string, a nested map, or a leaf of another JSON type (number,*)
(* boolean, list, null), whose content is kept as text.  The map is        *)
(* ranged over in any order, and the engine answers each string leaf with  *)
(* a failure or with one of EngineAnswers.                                 *)
(***************************************************************************)
StringLeaf(t) == [kind |-> "string", text |-> t, fields |-> <<>>]

OtherLeaf(kind, t) == [kind |-> kind, text |-> t, fields |-> <<>>]

Object(f) == [kind |-> "object", text |-> <<>>, fields |-> f]

\* the nil map
NilMap == [kind |-> "nil", text |-> <<>>, fields |-> <<>>]

EngineAnswers == {<<"x">>, <<"[", "b", "]">>}

\* fmt.Errorf("error translating key %s: %w", key, err)
ErrTranslatingKey(key) == "error translating key " \o key \o ": " \o ErrOpenAI

RECURSIVE TranslateJSON_SkipsNull(_, _)
\* Faulty variant: null leaves are left out of the result.
TranslateJSON_SkipsNull(data, prefix) ==
    LET kept == {k \in DOMAIN data : data[k].kind # "null"}
        outcomes(key) ==
            LET v == data[key]
            IN IF v.kind = "string"
               THEN {[err |-> ErrTranslatingKey(key), val |-> NilMap,
                      path |-> Append(prefix, key)]}
                    \cup {[err |-> ErrNil,
                           val |-> StringLeaf(Translate(v.text, e, FALSE).result),
                           path |-> <<>>] : e \in EngineAnswers}
               ELSE IF v.kind = "object"
               THEN {[err |-> o.err, val |-> o.result, path |-> o.path]
                     : o \in TranslateJSON_SkipsNull(v.fields, Append(prefix, key))}
               ELSE {[err |-> ErrNil, val |-> v, path |-> <<>>]}
        all == UNION {outcomes(k) : k \in kept}
    IN {[err |-> o.err, result |-> NilMap, path |-> o.path, data |-> data]
        : o \in {x \in all : x.err # ErrNil}}
       \cup {[err |-> ErrNil, result |-> Object([k \in kept |-> f[k].val]),
              path |-> <<>>, data |-> data]
             : f \in {g \in [kept -> all] :
                         \A k \in kept : g[k] \in outcomes(k) /\ g[k].err = ErrNil}}

RECURSIVE TranslateJSON(_, _)
\* prefix: the keys from the root to data.  An outcome has the error, the
\* returned map, the path of the leaf that failed and the map the caller passed
\* as it is after the call.
TranslateJSON(data, prefix) ==
    LET outcomes(key) ==
            LET v == data[key]
            IN IF v.kind = "string"
               THEN {[err |-> ErrTranslatingKey(key), val |-> NilMap,
                      path |-> Append(prefix, key)]}
                    \cup {[err |-> ErrNil,
                           val |-> StringLeaf(Translate(v.text, e, FALSE).result),
                           path |-> <<>>] : e \in EngineAnswers}
               ELSE IF v.kind = "object"
               THEN {[err |-> o.err, val |-> o.result, path |-> o.path]
                     : o \in TranslateJSON(v.fields, Append(prefix, key))}
               ELSE {[err |-> ErrNil, val |-> v, path |-> <<>>]}
        all == UNION {outcomes(k) : k \in DOMAIN data}
    IN {[err |-> o.err, result |-> NilMap, path |-> o.path, data |-> data]
        : o \in {x \in all : x.err # ErrNil}}
       \cup {[err |-> ErrNil, result |-> Object([k \in DOMAIN data |-> f[k].val]),
              path |-> <<>>, data |-> data]
             : f \in {g \in [DOMAIN data -> all] :
                         \A k \in DOMAIN data : g[k] \in outcomes(k) /\ g[k].err = ErrNil}}

JSONKeys == {"a", "b"}

JSONLeaves ==
    {StringLeaf(<<"[", "a", "]">>),
     OtherLeaf("number", <<"4", "2">>),
     OtherLeaf("bool", <<"t", "r", "u", "e">>),
     OtherLeaf("list", <<"[", "a", "]">>),
     OtherLeaf("null", <<>>)}

\* Maps nest at most MaxDepth deep.
MaxDepth == 2

RECURSIVE MapsUpTo(_)
\* the maps over JSONKeys nested at most depth deep
MapsUpTo(depth) ==
    IF depth = 0 THEN {}
    ELSE LET values == JSONLeaves \cup {Object(f) : f \in MapsUpTo(depth - 1)}
         IN UNION {[keys -> values] : keys \in SUBSET JSONKeys}

\* input: the argument of the call; data: the caller's map, during and after it
JsonInit ==
    /\ rows = {}
    /\ cache = NoRes
    /\ cacheUp = TRUE
    /\ lastOp = NoOp
    /\ firstSaved = NoRes
    /\ job = NoJob
    /\ catalog = Catalog
    /\ procs = [p \in Procs |-> Idle]
    /\ \E data \in MapsUpTo(MaxDepth) :
           text = [pc |-> "called", input |-> data, data |-> data, err |-> ErrNil,
                   result |-> NilMap, path |-> <<>>]

TranslateJSONReturn ==
    /\ text.pc = "called"
    /\ \E o \in TranslateJSON(text.data, <<>>) :
           text' = [text EXCEPT !.pc = "returned", !.data = o.data, !.err = o.err,
                                !.result = o.result, !.path = o.path]
    /\ UNCHANGED <<storeVars, procs, job, catalog>>

JsonNext == TranslateJSONReturn

JsonSpec == JsonInit /\ [][JsonNext]_vars

(***************************************************************************)
(* Bulk reads addressed by component code, with components being deleted.  *)
(***************************************************************************)
CatalogComps == {k.id : k \in Catalog.components}
AppCodes == Catalog.applications \cup {"appX"}
ComponentCodes == {k.code : k \in Catalog.components} \cup {"nope"}
CodeRequests == UNION {[1..n -> ComponentCodes] : n \in 1..MaxBulk}

BulkReadByCodes(applicationCode, componentCodes, l, s) ==
    \E o \in GetMultipleTranslationsByCodes(rows, cache, cacheUp, catalog, applicationCode,
                                            componentCodes, l, s) :
        /\ rows' = o.rows
        /\ cache' = o.cache
        /\ lastOp' = [NoOp EXCEPT !.op = "BulkReadByCodes", !.app = applicationCode,
                                  !.codes = componentCodes, !.locale = l, !.stage = s,
                                  !.err = o.err, !.res = o.res]
        /\ UNCHANGED <<cacheUp, firstSaved, procs, text, job, catalog>>

\* ComponentHandler.DeleteComponent: soft delete, then the component's cache key
DeleteComponent(id) ==
    /\ \E k \in catalog.components : k.id = id
    /\ catalog' = [catalog EXCEPT !.components = {k \in @ : k.id # id}]
    /\ cache' = CacheDelete(cache, cacheUp, ComponentKey(id))
    /\ UNCHANGED <<rows, cacheUp, lastOp, firstSaved, procs, text, job>>

CodesNext ==
    \/ \E c \in CatalogComps, l \in Locales, data \in Payloads : Save(c, l, StageDraft, data)
    \/ \E applicationCode \in AppCodes, componentCodes \in CodeRequests, l \in Locales :
           BulkReadByCodes(applicationCode, componentCodes, l, StageDraft)
    \/ \E id \in CatalogComps : DeleteComponent(id)

CodesSpec == Init /\ [][CodesNext]_vars

(***************************************************************************)
(* TranslationHandler.BackfillTranslations, one request from any seeded    *)
(* store.  The request runs statement by statement: the source read, then  *)
(* for each target TranslateJSON and SaveTranslation.  What the engine     *)
(* answers (a payload or a failure) and whether the version-2 write        *)
(* succeeds are chosen at each step.                                       *)
(***************************************************************************)
BackfillLocales == {"en", "id", "es"}

\* A request names at most MaxTargets target locales.
MaxTargets == 3

TargetLists == UNION {[1..n -> BackfillLocales] : n \in 0..MaxTargets}

StatusOK == 200
StatusNotFound == 404
StatusInternalServerError == 500

BackfillInit ==
    /\ rows = {}
    /\ cache = NoRes
    /\ cacheUp \in BOOLEAN
    /\ lastOp = NoOp
    /\ firstSaved = NoRes
    /\ procs = [p \in Procs |-> Idle]
    /\ text = NoText
    /\ job = NoJob
    /\ catalog = Catalog

\* Before the request: saves that seed the store.
Seed(c, l, s, data) ==
    /\ job.pc = "idle"
    /\ \E o \in SaveTranslation(rows, cache, cacheUp, c, l, s, data, "none") :
           /\ rows' = o.rows
           /\ cache' = o.cache
    /\ UNCHANGED <<cacheUp, lastOp, firstSaved, procs, text, job, catalog>>

\* lines 511-543: the component and its application are looked up, then the
\* source translation is read
BackfillCall(c, sourceLocale, targets, stage) ==
    /\ job.pc = "idle"
    /\ LET request == [NoJob EXCEPT !.comp = c, !.source = sourceLocale, !.stage = stage,
                                    !.targets = targets, !.pc = "returned"]
       IN IF ~\E k \in catalog.components : k.id = c
          THEN /\ job' = [request EXCEPT !.status = StatusNotFound,
                                         !.err = "Component not found"]
               /\ UNCHANGED <<rows, cache>>
          ELSE IF (CHOOSE k \in catalog.components : k.id = c).app \notin catalog.applications
          THEN /\ job' = [request EXCEPT !.status = StatusNotFound,
                                         !.err = "Application not found"]
               /\ UNCHANGED <<rows, cache>>
          ELSE \E o \in GetTranslation(rows, cache, cacheUp, c, sourceLocale, stage, "none") :
                   /\ rows' = o.rows
                   /\ cache' = o.cache
                   /\ job' = IF o.err # ErrNil
                             THEN [request EXCEPT !.status = StatusNotFound, !.reads = 1,
                                                  !.err = "Source translation not found"]
                             ELSE [request EXCEPT !.pc = "translate", !.i = 1, !.reads = 1,
                                                  !.data = o.val.data]
    /\ UNCHANGED <<cacheUp, lastOp, firstSaved, procs, text, catalog>>

\* Faulty variant: the source translation is read again for every target.
BackfillTranslate_RereadsSource ==
    /\ job.pc = "translate"
    /\ job.i <= Len(job.targets)
    /\ \E o \in GetTranslation(rows, cache, cacheUp, job.comp, job.source, job.stage, "none") :
           /\ o.err = ErrNil
           /\ rows' = o.rows
           /\ cache' = o.cache
           /\ LET targetLocale == job.targets[job.i]
                  called == [job EXCEPT !.calls = Append(@, <<"TranslateJSON", targetLocale>>),
                                        !.reads = @ + 1,
                                        !.inputs = Append(@, o.val.data)]
              IN \/ job' = [called EXCEPT !.pc = "returned",
                                          !.status = StatusInternalServerError,
                                          !.err = "Failed to translate to " \o targetLocale
                                                      \o ": " \o ErrOpenAI]
                 \/ \E translatedData \in Payloads :
                        job' = [called EXCEPT !.pc = "save",
                                              !.translated = Append(@, translatedData)]
    /\ UNCHANGED <<cacheUp, lastOp, firstSaved, procs, text, catalog>>

\* lines 553-558: TranslateJSON of the source data for the next target; inputs
\* records the payload handed to each call
BackfillTranslate ==
    /\ job.pc = "translate"
    /\ job.i <= Len(job.targets)
    /\ LET targetLocale == job.targets[job.i]
           called == [job EXCEPT !.calls = Append(@, <<"TranslateJSON", targetLocale>>),
                                 !.inputs = Append(@, job.data)]
       IN \/ job' = [called EXCEPT !.pc = "returned", !.status = StatusInternalServerError,
                                   !.err = "Failed to translate to " \o targetLocale
                                               \o ": " \o ErrOpenAI]
          \/ \E translatedData \in Payloads :
                 job' = [called EXCEPT !.pc = "save", !.translated = Append(@, translatedData)]
    /\ UNCHANGED <<storeVars, procs, text, catalog>>

\* Faulty variant: a successful save is reported but the store is left as it was.
BackfillSave_NotPersisted ==
    /\ job.pc = "save"
    /\ LET targetLocale == job.targets[job.i]
           called == [job EXCEPT !.calls = Append(@, <<"SaveTranslation", targetLocale>>)]
       IN \E fault \in {"none", "write2"} :
              \E o \in SaveTranslation(rows, cache, cacheUp, job.comp, targetLocale, job.stage,
                                       job.translated[job.i], fault) :
                  /\ UNCHANGED <<rows, cache>>
                  /\ job' = IF o.err # ErrNil
                            THEN [called EXCEPT !.pc = "returned",
                                                !.status = StatusInternalServerError,
                                                !.err = "Failed to save translation for "
                                                            \o targetLocale]
                            ELSE [called EXCEPT !.pc = "translate", !.i = @ + 1,
                                                !.results = Append(@, o.val)]
    /\ UNCHANGED <<cacheUp, lastOp, firstSaved, procs, text, catalog>>

\* lines 560-567: SaveTranslation of the translated data
BackfillSave ==
    /\ job.pc = "save"
    /\ LET targetLocale == job.targets[job.i]
           called == [job EXCEPT !.calls = Append(@, <<"SaveTranslation", targetLocale>>)]
       IN \E fault \in {"none", "write2"} :
              \E o \in SaveTranslation(rows, cache, cacheUp, job.comp, targetLocale, job.stage,
                                       job.translated[job.i], fault) :
                  /\ rows' = o.rows
                  /\ cache' = o.cache
                  /\ job' = IF o.err # ErrNil
                            THEN [called EXCEPT !.pc = "returned",
                                                !.status = StatusInternalServerError,
                                                !.err = "Failed to save translation for "
                                                            \o targetLocale]
                            ELSE [called EXCEPT !.pc = "translate", !.i = @ + 1,
                                                !.results = Append(@, o.val)]
    /\ UNCHANGED <<cacheUp, lastOp, firstSaved, procs, text, catalog>>

\* line 570: every target is done
BackfillReturn ==
    /\ job.pc = "translate"
    /\ job.i > Len(job.targets)
    /\ job' = [job EXCEPT !.pc = "returned", !.status = StatusOK]
    /\ UNCHANGED <<storeVars, procs, text, catalog>>

BackfillNext ==
    \/ \E l \in BackfillLocales, data \in Payloads : Seed("c1", l, StageDraft, data)
    \/ \E c \in {"c1", "c9"}, sourceLocale \in BackfillLocales, targets \in TargetLists :
           BackfillCall(c, sourceLocale, targets, StageDraft)
    \/ BackfillTranslate
    \/ BackfillSave
    \/ BackfillReturn

BackfillSpec == BackfillInit /\ [][BackfillNext]_vars

(***************************************************************************)
(* Deploy and backfill on one store: the single-key operations on the      *)
(* component c1, and one backfill request among them.                      *)
(***************************************************************************)
PipelineLocales == {"en", "id"}

PipelineTargets == {<<>>, <<"id">>, <<"id", "en">>}

PipelineNext ==
    \/ \E l \in PipelineLocales, s \in Stages, data \in Payloads :
           job.pc = "idle" /\ Save("c1", l, s, data)
    \/ \E l \in PipelineLocales, s \in Stages : job.pc = "idle" /\ Read("c1", l, s)
    \/ \E l \in PipelineLocales, fromStage \in Stages, toStage \in Stages :
           job.pc = "idle" /\ Deploy("c1", l, fromStage, toStage)
    \/ \E sourceLocale \in PipelineLocales, targets \in PipelineTargets, stage \in Stages :
           BackfillCall("c1", sourceLocale, targets, stage)
    \/ BackfillTranslate
    \/ BackfillSave
    \/ BackfillReturn

PipelineSpec == Init /\ [][PipelineNext]_vars

(***************************************************************************)
(* The store with failing statements: any single query or write of a call  *)
(* may fail with a database error.                                         *)
(***************************************************************************)
SaveFaults == {"none", "write2", "create1"}
ReadFaults == {"none", "q2", "q1"}

FaultySave(c, l, s, data, fault) ==
    \E o \in SaveTranslation(rows, cache, cacheUp, c, l, s, data, fault) :
        /\ Cardinality(KeysOf(o.rows)) <= MaxKeys
        /\ rows' = o.rows
        /\ cache' = o.cache
        \* swept: the rows the call's sweep deleted
        /\ lastOp' = [NoOp EXCEPT !.op = "Save", !.comp = c, !.locale = l, !.stage = s,
                                  !.data = data, !.fault = fault, !.err = o.err,
                                  !.val = o.val,
                                  !.swept = {r \in rows : r.version > 2} \ o.rows]
        /\ UNCHANGED <<cacheUp, firstSaved, auxVars>>

FaultyRead(c, l, s, fault) ==
    \E o \in GetTranslation(rows, cache, cacheUp, c, l, s, fault) :
        /\ rows' = o.rows
        /\ cache' = o.cache
        /\ lastOp' = [NoOp EXCEPT !.op = "Read", !.comp = c, !.locale = l, !.stage = s,
                                  !.fault = fault, !.err = o.err, !.val = o.val]
        /\ UNCHANGED <<cacheUp, firstSaved, auxVars>>

FaultyBulkRead(ids, l, s, fault) ==
    \E o \in GetMultipleTranslations(rows, cache, cacheUp, ids, l, s, fault) :
        /\ rows' = o.rows
        /\ cache' = o.cache
        /\ lastOp' = [NoOp EXCEPT !.op = "BulkRead", !.ids = ids, !.locale = l, !.stage = s,
                                  !.fault = fault, !.err = o.err, !.res = o.res,
                                  !.queries = o.queries]
        /\ UNCHANGED <<cacheUp, firstSaved, auxVars>>

FaultNext ==
    \/ \E c \in Comps, l \in Locales, data \in Payloads, fault \in SaveFaults :
           FaultySave(c, l, StageDraft, data, fault)
    \/ \E c \in Comps, l \in Locales, fault \in ReadFaults : FaultyRead(c, l, StageDraft, fault)
    \/ \E ids \in BulkRequests, l \in Locales, fault \in ReadFaults :
           FaultyBulkRead(ids, l, StageDraft, fault)
    \/ \E c \in Comps, l \in Locales : Revert(c, l, StageDraft)
    \/ \E key \in DOMAIN cache : Expire(key)

FaultSpec == Init /\ [][FaultNext]_vars

(***************************************************************************)
(* Deploys between arbitrary stage labels: the three named stages and a    *)
(* label that is none of them.                                             *)
(***************************************************************************)
StageLabels == {StageDraft, StageStaging, StageProduction, "qa"}

StagesNext ==
    \/ \E s \in StageLabels, data \in Payloads : Save("c1", "en", s, data)
    \/ \E s \in StageLabels : Read("c1", "en", s)
    \/ \E fromStage \in StageLabels, toStage \in StageLabels :
           Deploy("c1", "en", fromStage, toStage)
    \/ \E key \in DOMAIN cache : Expire(key)

StagesSpec == Init /\ [][StagesNext]_vars

(***************************************************************************)
(* Reads of one key over any content of the translation_versions table:    *)
(* for each version no row, or a row that is active or not.  The table is  *)
(* what a starting server finds; the reads do not change it.               *)
(***************************************************************************)
TableRows ==
    {[id |-> 1, comp |-> "c1", locale |-> "en", stage |-> StageDraft, version |-> v,
      data |-> d, active |-> a] : v \in {1, 2}, d \in Payloads, a \in BOOLEAN}

\* tables with at most one row per version
Tables ==
    {t \in SUBSET TableRows : \A x \in t, y \in t : x.version = y.version => x = y}

ReadInit ==
    /\ rows \in Tables
    /\ cache = NoRes
    /\ cacheUp \in BOOLEAN
    /\ lastOp = NoOp
    /\ firstSaved = NoRes
    /\ procs = [p \in Procs |-> Idle]
    /\ text = NoText
    /\ job = NoJob
    /\ catalog = Catalog

ReadNext ==
    \/ \E fault \in ReadFaults : FaultyRead("c1", "en", StageDraft, fault)
    \/ \E key \in DOMAIN cache : Expire(key)

ReadSpec == ReadInit /\ [][ReadNext]_vars

(***************************************************************************)
(* One SaveTranslation call running statement by statement while reads of  *)
(* the translation and of the component fill the cache.                    *)
(***************************************************************************)
\* json.Marshal of a Component
MarshalComponent(k) == <<k.id, k.code, k.app>>

\* ComponentHandler.GetComponent by id: a cache hit is answered from the cache,
\* else the component is loaded and cached
GetComponent(identifier) ==
    /\ cacheUp
    /\ ComponentKey(identifier) \notin DOMAIN cache
    /\ \E k \in catalog.components :
           /\ k.id = identifier
           /\ cache' = (ComponentKey(identifier) :> MarshalComponent(k)) @@ cache
    /\ UNCHANGED <<rows, cacheUp, lastOp, firstSaved, auxVars>>

StepNext ==
    \/ \E data \in Payloads : SaveCall("p1", "c1", "en", StageDraft, data)
    \/ SaveFind2("p1")
    \/ SaveWrite2("p1")
    \/ SaveFind1("p1")
    \/ SaveCreate1("p1")
    \/ SaveInvalidate("p1")
    \/ SaveReturn("p1")
    \/ Read("c1", "en", StageDraft)
    \/ GetComponent("c1")

StepSpec == ConcInit /\ [][StepNext]_vars

(***************************************************************************)
(* A GetTranslation call running statement by statement on its own         *)
(* goroutine beside a SaveTranslation call: the cache lookup, the two       *)
(* queries and the cache fill are separate statements (lines 24-48).       *)
(***************************************************************************)
\* the handler calls GetTranslation(componentID, locale, stage)
ReadCall(p, c, l, s) ==
    /\ Step(p, "idle", [Idle EXCEPT !.pc = "cacheGet", !.comp = c, !.locale = l, !.stage = s])
    /\ UNCHANGED <<rows, cache, cacheUp, lastOp, firstSaved, text, job, catalog>>

\* lines 24-28: a cache hit is returned at once
ReadCacheGet(p) ==
    LET q == procs[p]
        cached == CacheGet(cache, cacheUp, TranslationKey(q.comp, q.locale, q.stage))
    IN /\ q.pc = "cacheGet"
       /\ IF cached.err = ErrNil
          THEN /\ procs' = [procs EXCEPT ![p] = Idle]
               /\ lastOp' = [NoOp EXCEPT !.op = "Read", !.comp = q.comp, !.locale = q.locale,
                                         !.stage = q.stage, !.val = cached.val]
          ELSE /\ procs' = [procs EXCEPT ![p] = [q EXCEPT !.pc = "query2"]]
               /\ UNCHANGED lastOp
       /\ UNCHANGED <<rows, cache, cacheUp, firstSaved, text, job, catalog>>

\* lines 31-33: the version-2 query
ReadQuery2(p) ==
    LET q == procs[p]
    IN \E found \in First(WhereActive(rows, q.comp, q.locale, q.stage, 2), FALSE) :
           /\ Step(p, "query2", [q EXCEPT !.found = found,
                                          !.pc = IF found.err = ErrRecordNotFound
                                                 THEN "query1" ELSE "cacheSet"])
           /\ UNCHANGED <<rows, cache, cacheUp, lastOp, firstSaved, text, job, catalog>>

\* lines 35-39: the version-1 query
ReadQuery1(p) ==
    LET q == procs[p]
    IN \E found \in First(WhereActive(rows, q.comp, q.locale, q.stage, 1), FALSE) :
           /\ Step(p, "query1", [q EXCEPT !.found = found, !.pc = "cacheSet"])
           /\ UNCHANGED <<rows, cache, cacheUp, lastOp, firstSaved, text, job, catalog>>

\* lines 41-48: an error is returned, else the row is cached and returned
ReadCacheSet(p) ==
    LET q == procs[p]
    IN /\ Step(p, "cacheSet", Idle)
       /\ cache' = IF q.found.err # ErrNil THEN cache
                   ELSE CacheSet(cache, cacheUp, TranslationKey(q.comp, q.locale, q.stage),
                                 q.found.val)
       /\ lastOp' = [NoOp EXCEPT !.op = "Read", !.comp = q.comp, !.locale = q.locale,
                                 !.stage = q.stage, !.err = q.found.err, !.val = q.found.val]
       /\ UNCHANGED <<rows, cacheUp, firstSaved, text, job, catalog>>

\* p1 saves and p2 reads the same key
RaceNext ==
    \/ \E data \in Payloads : SaveCall("p1", "c1", "en", StageDraft, data)
    \/ SaveFind2("p1")
    \/ SaveWrite2("p1")
    \/ SaveFind1("p1")
    \/ SaveCreate1("p1")
    \/ SaveInvalidate("p1")
    \/ SaveReturn("p1")
    \/ ReadCall("p2", "c1", "en", StageDraft)
    \/ ReadCacheGet("p2")
    \/ ReadQuery2("p2")
    \/ ReadQuery1("p2")
    \/ ReadCacheSet("p2")

RaceSpec == ConcInit /\ [][RaceNext]_vars

(***************************************************************************)
(* Two concurrent SaveTranslation calls on one key, and single-key and     *)
(* bulk reads of it once both have returned.                               *)
(***************************************************************************)
Quiet == \A p \in Procs : procs[p].pc = "idle"

DupNext ==
    \/ \E p \in Procs, data \in Payloads : SaveCall(p, "c1", "en", StageDraft, data)
    \/ \E p \in Procs : SaveFind2(p)
    \/ \E p \in Procs : SaveWrite2(p)
    \/ \E p \in Procs : SaveFind1(p)
    \/ \E p \in Procs : SaveCreate1(p)
    \/ \E p \in Procs : SaveInvalidate(p)
    \/ \E p \in Procs : SaveReturn(p)
    \/ Quiet /\ Read("c1", "en", StageDraft)
    \/ Quiet /\ BulkRead(<<"c1">>, "en", StageDraft)

DupSpec == ConcInit /\ [][DupNext]_vars

(***************************************************************************)
(* Reverts and reads of one key over any content of the table.             *)
(***************************************************************************)
RevertNext ==
    \/ Read("c1", "en", StageDraft)
    \/ Revert("c1", "en", StageDraft)
    \/ \E key \in DOMAIN cache : Expire(key)

RevertSpec == ReadInit /\ [][RevertNext]_vars

(***************************************************************************)
(* One backfill request of the component c1 while other requests save to   *)
(* its keys, the source key among them, at any point of the run.           *)
(***************************************************************************)
OrderTargets == UNION {[1..n -> PipelineLocales] : n \in 0..2}

OrderNext ==
    \/ \E l \in PipelineLocales, data \in Payloads : Save("c1", l, StageDraft, data)
    \/ \E sourceLocale \in PipelineLocales, targets \in OrderTargets :
           BackfillCall("c1", sourceLocale, targets, StageDraft)
    \/ BackfillTranslate
    \/ BackfillSave
    \/ BackfillReturn

OrderSpec == Init /\ [][OrderNext]_vars

(***************************************************************************)
(* Saves over a table that holds rows of versions above 2, which the       *)
(* writes of this program never create: the table is what a starting       *)
(* server finds.                                                           *)
(***************************************************************************)
SweepRows ==
    {[id |-> 1, comp |-> c, locale |-> "en", stage |-> StageDraft, version |-> v,
      data |-> "P1", active |-> TRUE] : c \in Comps, v \in {1, 2, 3}}

SweepFaults == {"none", "create1", "cleanup"}

SweepInit ==
    /\ rows \in SUBSET SweepRows
    /\ cache = NoRes
    /\ cacheUp \in BOOLEAN
    /\ lastOp = NoOp
    /\ firstSaved = NoRes
    /\ procs = [p \in Procs |-> Idle]
    /\ text = NoText
    /\ job = NoJob
    /\ catalog = Catalog

SweepNext ==
    \/ \E c \in Comps, data \in Payloads, fault \in SweepFaults :
           FaultySave(c, "en", StageDraft, data, fault)
    \/ \E c \in Comps : Read(c, "en", StageDraft)

SweepSpec == SweepInit /\ [][SweepNext]_vars

(***************************************************************************)
(* Saves and reads with the locale and the stage as the handlers take them:*)
(* any string of the request, a ":" in it included.                        *)
(***************************************************************************)
KeyLocales == {"en", "en:x"}

KeyStages == {StageDraft, "x:" \o StageDraft}

KeyNext ==
    \/ \E l \in KeyLocales, s \in KeyStages, data \in Payloads : Save("c1", l, s, data)
    \/ \E l \in KeyLocales, s \in KeyStages : Read("c1", l, s)
    \/ \E key \in DOMAIN cache : Expire(key)

KeySpec == Init /\ [][KeyNext]_vars

(***************************************************************************)
(* Single-key and bulk reads among saves and reverts, over any content of  *)
(* the table for two components.                                           *)
(***************************************************************************)
AgreeRows ==
    {[id |-> 1, comp |-> c, locale |-> "en", stage |-> StageDraft, version |-> v,
      data |-> "P1", active |-> a] : c \in Comps, v \in {1, 2}, a \in BOOLEAN}

\* tables with at most one row per component and version
AgreeTables ==
    {t \in SUBSET AgreeRows :
        \A x \in t, y \in t : (x.comp = y.comp /\ x.version = y.version) => x = y}

AgreeInit ==
    /\ rows \in AgreeTables
    /\ cache = NoRes
    /\ cacheUp \in BOOLEAN
    /\ lastOp = NoOp
    /\ firstSaved = NoRes
    /\ procs = [p \in Procs |-> Idle]
    /\ text = NoText
    /\ job = NoJob
    /\ catalog = Catalog

AgreeNext ==
    \/ \E c \in Comps, data \in Payloads : Save(c, "en", StageDraft, data)
    \/ \E c \in Comps : Read(c, "en", StageDraft)
    \/ \E ids \in BulkRequests : BulkRead(ids, "en", StageDraft)
    \/ \E c \in Comps : Revert(c, "en", StageDraft)
    \/ \E key \in DOMAIN cache : Expire(key)

AgreeSpec == AgreeInit /\ [][AgreeNext]_vars

(***************************************************************************)
(* Claims about the store in sequential executions.                        *)
(***************************************************************************)
ReadNow(c, l, s) == GetTranslation(rows, cache, cacheUp, c, l, s, "none")

\* C1: in every state that follows a successful Save(component, locale, stage, P),
\* whatever saves, reverts, deploys and reads came before it, the single-key read
\* of that key succeeds and returns the payload P.
C1_SaveThenRead ==
    (lastOp.op = "Save" /\ lastOp.err = ErrNil) =>
        \A g \in ReadNow(lastOp.comp, lastOp.locale, lastOp.stage) :
            g.err = ErrNil /\ g.val.data = lastOp.data

\* A save has just replaced a different payload, with Redis up and the slot-1 row
\* still holding the older payload.
C1_Witness ==
    /\ lastOp.op = "Save" /\ lastOp.err = ErrNil /\ cacheUp
    /\ \E r \in Where(rows, lastOp.comp, lastOp.locale, lastOp.stage, 1) :
           r.data # lastOp.data
    /\ \E g \in ReadNow(lastOp.comp, lastOp.locale, lastOp.stage) : g.val.data = lastOp.data

C5_DeployCopiesSource ==
    [][(lastOp'.op = "Deploy" /\ lastOp'.err = ErrNil) =>
          \A g \in GetTranslation(rows', cache', cacheUp', lastOp'.comp, lastOp'.locale,
                                  lastOp'.toStage, "none") :
              /\ g.err = ErrNil
              /\ g.val.data \in StoredPayloads(rows, lastOp'.comp, lastOp'.locale,
                                               lastOp'.stage)]_vars

\* A deploy between two different stages has just overwritten a target whose
\* first-saved payload differs from the deployed one.
C5_Witness ==
    /\ lastOp.op = "Deploy" /\ lastOp.err = ErrNil /\ lastOp.stage # lastOp.toStage
    /\ \E r1 \in Where(rows, lastOp.comp, lastOp.locale, lastOp.toStage, 1) :
           r1.data \notin StoredPayloads(rows, lastOp.comp, lastOp.locale, lastOp.toStage)
    /\ StoredPayloads(rows, lastOp.comp, lastOp.locale, lastOp.toStage)
           = StoredPayloads(rows, lastOp.comp, lastOp.locale, lastOp.stage)

\* Every cache entry of a translation key is the row the store read returns.
CacheConsistent ==
    \A c \in Comps, l \in Locales, s \in Stages :
        TranslationKey(c, l, s) \in DOMAIN cache =>
            \E r \in rows :
                /\ r = Unmarshal(cache[TranslationKey(c, l, s)])
                /\ r.comp = c /\ r.locale = l /\ r.stage = s
                /\ r.data \in StoredPayloads(rows, c, l, s)

HasRow(c, l, s) == WhereActive(rows, c, l, s, 2) \cup WhereActive(rows, c, l, s, 1) # {}

\* C8: with a cache consistent with the store, the bulk read of any requested
\* list returns no error and a map whose keys are exactly the requested
\* components that have an active slot-2 or slot-1 row for the locale and stage.
C8_BulkExactlyStored ==
    CacheConsistent =>
        \A ids \in BulkRequests, l \in Locales, s \in Stages :
            \A o \in GetMultipleTranslations(rows, cache, cacheUp, ids, l, s, "none") :
                /\ o.err = ErrNil
                /\ DOMAIN o.res = {c \in Range(ids) : HasRow(c, l, s)}

\* A bulk read of two components has just returned one of them only, while the
\* other component has rows under the other stage.
C8_Witness ==
    /\ lastOp.op = "BulkRead" /\ lastOp.err = ErrNil
    /\ Cardinality(Range(lastOp.ids)) = 2
    /\ Cardinality(DOMAIN lastOp.res) = 1
    /\ \E c \in Range(lastOp.ids) \ DOMAIN lastOp.res, s \in Stages : HasRow(c, lastOp.locale, s)

Result(o) == [rows |-> o.rows, err |-> o.err, val |-> o.val]

BulkResult(o) == [rows |-> o.rows, err |-> o.err, res |-> o.res]

\* C9: while every cache call fails, each operation returns what it returns with
\* an empty cache and leaves the store rows it leaves with an empty cache: single
\* read, bulk read, save, revert and deploy, for every argument.
C9_CacheDownIsTransparent ==
    ~cacheUp =>
        /\ \A c \in Comps, l \in Locales, s \in Stages :
               /\ {Result(o) : o \in GetTranslation(rows, cache, FALSE, c, l, s, "none")}
                      = {Result(o) : o \in GetTranslation(rows, NoRes, TRUE, c, l, s, "none")}
               /\ {Result(o) : o \in RevertTranslation(rows, cache, FALSE, c, l, s)}
                      = {Result(o) : o \in RevertTranslation(rows, NoRes, TRUE, c, l, s)}
               /\ \A d \in Payloads :
                      {Result(o) : o \in SaveTranslation(rows, cache, FALSE, c, l, s, d, "none")}
                          = {Result(o) : o \in SaveTranslation(rows, NoRes, TRUE, c, l, s, d, "none")}
               /\ \A t \in Stages :
                      {Result(o) : o \in DeployToStage(rows, cache, FALSE, c, l, s, t)}
                          = {Result(o) : o \in DeployToStage(rows, NoRes, TRUE, c, l, s, t)}
        /\ \A ids \in BulkRequests, l \in Locales, s \in Stages :
               {BulkResult(o) : o \in GetMultipleTranslations(rows, cache, FALSE, ids, l, s, "none")}
                   = {BulkResult(o) : o \in GetMultipleTranslations(rows, NoRes, TRUE, ids, l, s, "none")}

\* With Redis down, a read has just returned a stored row.
C9_Witness ==
    /\ ~cacheUp
    /\ lastOp.op = "Read" /\ lastOp.err = ErrNil
    /\ lastOp.val \in rows

(***************************************************************************)
(* Claims about concurrent saves.                                          *)
(***************************************************************************)
\* C4: in every reachable state, also while two Save calls on the same key
\* interleave, the key has at most one active slot-1 row and at most one active
\* slot-2 row.
C4_AtMostOneRowPerSlot ==
    \A c \in Comps, l \in Locales, s \in Stages, v \in {1, 2} :
        Cardinality(WhereActive(rows, c, l, s, v)) <= 1

(***************************************************************************)
(* Claims about the template-preserving translator.                        *)
(***************************************************************************)
\* C7: whatever the engine answers, the text Translate returns contains the
\* bracketed token "[v]" of every placeholder v extracted from the original.
C7_EveryPlaceholderRestored ==
    (text.pc = "returned" /\ text.err = ErrNil) =>
        \A i \in 1..Len(ExtractTemplateValues(text.original)) :
            Contains(text.result, Placeholder(ExtractTemplateValues(text.original)[i]))

(***************************************************************************)
(* Claims about backfill and about bulk reads by code.                     *)
(***************************************************************************)
\* the request returned a failure of its i-th target
BackfillFailedAt(i) ==
    /\ job.pc = "returned"
    /\ job.status = StatusInternalServerError
    /\ job.i = i

\* the last position before i at which the request names the locale l
LastBefore(i, l) ==
    CHOOSE k \in 1..(i - 1) :
        /\ job.targets[k] = l
        /\ \A m \in (k + 1)..(i - 1) : job.targets[m] # l

\* the calls made for the targets before the i-th, in order
RECURSIVE CallsBefore(_)
CallsBefore(i) ==
    IF i <= 1 THEN <<>>
    ELSE CallsBefore(i - 1) \o << <<"TranslateJSON", job.targets[i - 1]>>,
                                  <<"SaveTranslation", job.targets[i - 1]>> >>

Resolves(applicationCode, code) ==
    \E k \in catalog.components : k.code = code /\ k.app = applicationCode

\* C10: a bulk read by codes in which some code does not resolve to a
\* component of the application returns an error and no map at all, whatever
\* the other codes are.
C10_ByCodesAllOrNothing ==
    \A applicationCode \in AppCodes, componentCodes \in CodeRequests, l \in Locales :
        (\E n \in 1..Len(componentCodes) : ~Resolves(applicationCode, componentCodes[n]))
            => \A o \in GetMultipleTranslationsByCodes(rows, cache, cacheUp, catalog,
                                                       applicationCode, componentCodes, l,
                                                       StageDraft) :
                   /\ o.err # ErrNil
                   /\ o.res = NoRes
                   /\ o.rows = rows
                   /\ o.cache = cache

\* a rejected request that names a component with a stored translation next
\* to a code that does not resolve
C10_Witness ==
    /\ lastOp.op = "BulkReadByCodes"
    /\ lastOp.app \in catalog.applications
    /\ lastOp.err = "component codes not found"
    /\ lastOp.res = NoRes
    /\ \E n \in 1..Len(lastOp.codes) :
           /\ Resolves(lastOp.app, lastOp.codes[n])
           /\ \E k \in catalog.components :
                  /\ k.code = lastOp.codes[n]
                  /\ k.app = lastOp.app
                  /\ WhereActive(rows, k.id, lastOp.locale, lastOp.stage, 2) # {}
    /\ \E n \in 1..Len(lastOp.codes) : ~Resolves(lastOp.app, lastOp.codes[n])

(***************************************************************************)
(* Claims about the error paths of the pipeline operations.                *)
(***************************************************************************)
\* nothing saved and nothing cached for the key (c, l, s)
SourceEmpty(c, l, s) ==
    /\ WhereActive(rows, c, l, s, 2) = {}
    /\ WhereActive(rows, c, l, s, 1) = {}
    /\ CacheGet(cache, cacheUp, TranslationKey(c, l, s)).err # ErrNil

\* C11: when the source key has no active row in slot 2 or slot 1 and nothing
\* cached, Deploy fails with "source translation not found" and leaves every
\* row as it was, and Backfill answers 404 "Source translation not found" at
\* once: no TranslateJSON or SaveTranslation call is made and no row changes.
C11_EmptySourceIsNotFound ==
    /\ [](\A l \in PipelineLocales, fromStage \in Stages, toStage \in Stages :
             SourceEmpty("c1", l, fromStage) =>
                 \A o \in DeployToStage(rows, cache, cacheUp, "c1", l, fromStage, toStage) :
                     /\ o.err = "source translation not found"
                     /\ o.rows = rows)
    /\ [][(job.pc = "idle" /\ job'.pc # "idle"
              /\ SourceEmpty(job'.comp, job'.source, job'.stage)) =>
             /\ job'.pc = "returned"
             /\ job'.status = StatusNotFound
             /\ job'.err = "Source translation not found"
             /\ job'.calls = <<>>
             /\ job'.results = <<>>
             /\ rows' = rows]_vars

\* A deploy from an empty source has failed while the target key has rows, and
\* then a backfill from an empty source with two targets has answered 404.
C11_Witness ==
    /\ lastOp.op = "Deploy" /\ lastOp.err = "source translation not found"
    /\ SourceEmpty(lastOp.comp, lastOp.locale, lastOp.stage)
    /\ HasRow(lastOp.comp, lastOp.locale, lastOp.toStage)
    /\ job.pc = "returned" /\ job.status = StatusNotFound
    /\ job.err = "Source translation not found"
    /\ Len(job.targets) = 2
    /\ SourceEmpty(job.comp, job.source, job.stage)

\* C12: Revert of a key that has no slot-1 row fails with "no previous version
\* found" and changes neither the store rows nor the cache (so the key's cache
\* entry stays as it was), also when the key has a slot-2 row and a cache entry.
C12_RevertWithoutSlot1 ==
    \A c \in Comps, l \in Locales, s \in Stages :
        Where(rows, c, l, s, 1) = {} =>
            \A o \in RevertTranslation(rows, cache, cacheUp, c, l, s) :
                /\ o.err = "no previous version found"
                /\ o.rows = rows
                /\ o.cache = cache

\* A revert has just failed on a key that has a slot-2 row and a cache entry but
\* no slot-1 row.
C12_Witness ==
    /\ lastOp.op = "Revert" /\ lastOp.err = "no previous version found"
    /\ Where(rows, lastOp.comp, lastOp.locale, lastOp.stage, 1) = {}
    /\ Where(rows, lastOp.comp, lastOp.locale, lastOp.stage, 2) # {}
    /\ TranslationKey(lastOp.comp, lastOp.locale, lastOp.stage) \in DOMAIN cache

C14_SaveRollsVersions ==
    \A c \in Comps, l \in Locales, s \in Stages, data \in Payloads :
        Where(rows, c, l, s, 2) # {} =>
            \A o \in SaveTranslation(rows, cache, cacheUp, c, l, s, data, "none") :
                o.err = ErrNil =>
                    /\ {r.data : r \in Where(o.rows, c, l, s, 2)} = {data}
                    /\ {r.data : r \in Where(o.rows, c, l, s, 1)}
                           = {r.data : r \in Where(rows, c, l, s, 2)}

(***************************************************************************)
(* Claims about the read path and about failing store statements.          *)
(***************************************************************************)
\* C15: on a cache miss the single-key read returns an active slot-2 row when
\* one exists; an active slot-1 row when no active slot-2 row exists; "record
\* not found" exactly when neither exists; and when the slot-2 query fails with
\* another error, that error, without looking at slot 1.
C15_ReadPrefersSlot2 ==
    LET slot2 == WhereActive(rows, "c1", "en", StageDraft, 2)
        slot1 == WhereActive(rows, "c1", "en", StageDraft, 1)
    IN CacheGet(cache, cacheUp, TranslationKey("c1", "en", StageDraft)).err # ErrNil =>
           /\ \A o \in GetTranslation(rows, cache, cacheUp, "c1", "en", StageDraft, "none") :
                  /\ slot2 # {} => o.err = ErrNil /\ o.val \in slot2
                  /\ (slot2 = {} /\ slot1 # {}) => o.err = ErrNil /\ o.val \in slot1
                  /\ o.err = ErrRecordNotFound <=> (slot2 = {} /\ slot1 = {})
                  /\ o.err \in {ErrNil, ErrRecordNotFound}
           /\ \A o \in GetTranslation(rows, cache, cacheUp, "c1", "en", StageDraft, "q2") :
                  /\ o.err = ErrDB
                  /\ o.val = NilRow
                  /\ o.rows = rows
                  /\ o.cache = cache

\* A read has just fallen back to the active slot-1 row while the table holds a
\* slot-2 row that is not active.
C15_Witness ==
    /\ lastOp.op = "Read" /\ lastOp.fault = "none" /\ lastOp.err = ErrNil
    /\ lastOp.val.version = 1
    /\ lastOp.val \in WhereActive(rows, "c1", "en", StageDraft, 1)
    /\ Where(rows, "c1", "en", StageDraft, 2) # {}
    /\ ~cacheUp

\* C16: a bulk read issues no store query when every requested component hits
\* the cache; otherwise one batched slot-2 query for all cache-missed
\* components, then at most one batched slot-1 query for exactly the
\* cache-missed components the slot-2 query returned no row for: never more
\* than two queries, whatever the list and whichever query fails.
C16_BulkAtMostTwoQueries ==
    \A ids \in BulkRequests, l \in Locales, fault \in ReadFaults :
        LET missed == {c \in Range(ids) :
                          CacheGet(cache, cacheUp, TranslationKey(c, l, StageDraft)).err # ErrNil}
            noSlot2 == {c \in missed : WhereActive(rows, c, l, StageDraft, 2) = {}}
        IN \A o \in GetMultipleTranslations(rows, cache, cacheUp, ids, l, StageDraft, fault) :
               /\ Len(o.queries) <= 2
               /\ missed = {} <=> o.queries = <<>>
               /\ missed # {} => o.queries[1] = [version |-> 2, ids |-> missed]
               /\ Len(o.queries) = 2 =>
                      /\ noSlot2 # {}
                      /\ o.queries[2] = [version |-> 1, ids |-> noSlot2]
               /\ (fault # "q2" /\ noSlot2 # {}) => Len(o.queries) = 2

\* A bulk read of two components, one of them cached or found in slot 2, has
\* issued the slot-2 query for the cache-missed ones and the slot-1 query for the
\* other component alone.
C16_Witness ==
    /\ lastOp.op = "BulkRead"
    /\ Cardinality(Range(lastOp.ids)) = 2
    /\ Len(lastOp.queries) = 2
    /\ lastOp.queries[1].version = 2
    /\ lastOp.queries[2].version = 1
    /\ Cardinality(lastOp.queries[2].ids) = 1
    /\ Cardinality(DOMAIN lastOp.res) = 1

(***************************************************************************)
(* Claims about cache invalidation by the writes.                          *)
(***************************************************************************)
\* the statements of SaveTranslation in program order
SaveOrder ==
    {<<"idle", "find2">>, <<"find2", "write2">>, <<"write2", "find1">>,
     <<"find1", "create1">>, <<"create1", "invalidate">>, <<"invalidate", "cleanup">>,
     <<"cleanup", "idle">>}

C19_SaveWriteFailureIsFatal ==
    lastOp.op = "Save" =>
        /\ lastOp.fault = "write2" => lastOp.err # ErrNil
        /\ lastOp.err = ErrNil =>
               Where(rows, lastOp.comp, lastOp.locale, lastOp.stage, 1) # {}

\* C20: a bulk read whose batched slot-2 or slot-1 query fails returns an error,
\* and a bulk read that returns no error has in its map every requested
\* component that has an active row in the store.
C20_BulkQueryFailureSurfaced ==
    lastOp.op = "BulkRead" =>
        /\ (lastOp.fault = "q2" /\ Len(lastOp.queries) >= 1) => lastOp.err # ErrNil
        /\ (lastOp.fault = "q1" /\ Len(lastOp.queries) = 2) => lastOp.err # ErrNil
        /\ lastOp.err = ErrNil =>
               \A c \in Range(lastOp.ids) :
                   HasRow(c, lastOp.locale, lastOp.stage) => c \in DOMAIN lastOp.res

OriginalValues == ExtractTemplateValues(text.original)

EngineText == TrimSpace(text.engine)

EngineTokens == Len(ExtractTemplateValues(EngineText))

FewerTokens ==
    /\ text.pc = "returned" /\ text.err = ErrNil
    /\ EngineTokens < Len(OriginalValues)

SegmentStart(t, j) ==
    IF \E k \in 1..(j - 1) : t[k] = "]"
    THEN 1 + CHOOSE k \in 1..(j - 1) : t[k] = "]" /\ \A m \in (k + 1)..(j - 1) : t[m] # "]"
    ELSE 1

\* the first "[" between the "]" before position j and position j, 0 when none
FirstOpen(t, j) ==
    LET opens == {i \in SegmentStart(t, j)..(j - 1) : t[i] = "["}
    IN IF opens = {} THEN 0 ELSE CHOOSE i \in opens : \A k \in opens : i <= k

RECURSIVE TokensUpTo(_, _, _)
\* For every "]" among the first n characters, in order: the text between the
\* first "[" after the "]" before it and that "]".  least is the length the
\* text between the two must have to count.
TokensUpTo(t, n, least) ==
    IF n = 0 THEN <<>>
    ELSE LET i == FirstOpen(t, n)
         IN IF t[n] = "]" /\ i # 0 /\ n - i - 1 >= least
            THEN Append(TokensUpTo(t, n - 1, least), SubSeq(t, i + 1, n - 1))
            ELSE TokensUpTo(t, n - 1, least)

\* C23 as stated: extraction returns, from left to right, the interior of every
\* substring that runs from a "[" to the nearest following "]", each "[" being
\* the first one after the token before it (no token starts inside another),
\* and the empty list for a text without brackets.
C23_EveryBracketPair ==
    text.pc = "returned" =>
        \A t \in {text.original, text.engine} :
            ExtractTemplateValues(t) = TokensUpTo(t, Len(t), 0)

\* C23 amended: the same, for the substrings whose interior is not empty; "[]"
\* is not a token, and a "[" right before a "]" starts none.
C23_EveryNonEmptyBracketPair ==
    text.pc = "returned" =>
        \A t \in {text.original, text.engine} :
            /\ ExtractTemplateValues(t) = TokensUpTo(t, Len(t), 1)
            /\ (\A k \in 1..Len(t) : t[k] \notin {"[", "]"}) =>
                   ExtractTemplateValues(t) = <<>>

\* Translate has run on an original with a bracket inside a bracket, whose only
\* token is the text from the outer "[" to the first "]", and on an answer
\* with two tokens and no brackets elsewhere.
C23_Witness ==
    /\ text.pc = "returned"
    /\ text.original = <<"[", "[", "a", "]">>
    /\ ExtractTemplateValues(text.original) = << <<"[", "a">> >>
    /\ ExtractTemplateValues(text.engine) = << <<"b">>, <<"a">> >>

(***************************************************************************)
(* Claims about structured translation.                                    *)
(***************************************************************************)
RECURSIVE SameShape(_, _)
\* out has the keys of in at every level, a string where in has a string, and
\* the very leaf of in everywhere else
SameShape(in, out) ==
    IF in.kind = "object"
    THEN /\ out.kind = "object"
         /\ DOMAIN out.fields = DOMAIN in.fields
         /\ \A k \in DOMAIN in.fields : SameShape(in.fields[k], out.fields[k])
    ELSE IF in.kind = "string" THEN out.kind = "string"
    ELSE out = in

\* C24: a successful TranslateJSON returns a map with the key set of the input
\* at every nesting level, in which every leaf that is neither a string nor a
\* nested map (number, boolean, list, also a list of strings, null) is the
\* input's leaf, and the map the caller passed is as it was.
C24_ShapeAndOtherLeavesKept ==
    (text.pc = "returned" /\ text.err = ErrNil) =>
        /\ SameShape(Object(text.input), text.result)
        /\ text.data = text.input

\* A call has returned a map in which the nested string leaf was translated to
\* another text, next to a nested null and a list of strings that stayed.
C24_Witness ==
    /\ text.pc = "returned" /\ text.err = ErrNil
    /\ DOMAIN text.data = {"a", "b"}
    /\ text.data["b"] = OtherLeaf("list", <<"[", "a", "]">>)
    /\ text.data["a"].kind = "object"
    /\ DOMAIN text.data["a"].fields = {"a", "b"}
    /\ text.data["a"].fields["a"].kind = "string"
    /\ text.data["a"].fields["b"].kind = "null"
    /\ text.result.fields["a"].fields["a"] # text.data["a"].fields["a"]
    /\ text.result.fields["a"].fields["b"] = text.data["a"].fields["b"]
    /\ text.result.fields["b"] = text.data["b"]

\* C25: when the engine fails on a string leaf, TranslateJSON returns the nil
\* map, and the error tells which leaf failed by its key path from the root of
\* the payload: failures of leaves at different paths have different errors.
C25_FailureNamesKeyPath ==
    (text.pc = "returned" /\ text.err # ErrNil) =>
        /\ text.result = NilMap
        /\ \A other \in TranslateJSON(text.input, <<>>) :
               (other.err # ErrNil /\ other.path # text.path) => other.err # text.err

(***************************************************************************)
(* Claims about the sweep of the rows above version 2.                     *)
(***************************************************************************)
\* Every successful Save, its sweep failing or not, keeps every version-1 and
\* version-2 row of every key as it was, but for the data of the saved key's
\* version 2.
SweepKeepsBothSlots ==
    \A c \in Comps, data \in Payloads, fault \in SweepFaults :
        \A o \in SaveTranslation(rows, cache, cacheUp, c, "en", StageDraft, data, fault) :
            o.err = ErrNil =>
                \A r \in rows :
                    r.version \in {1, 2} =>
                        IF r.comp = c /\ r.version = 2
                        THEN [r EXCEPT !.data = data] \in o.rows
                        ELSE r \in o.rows

C28_PresentPlaceholderKept ==
    (text.pc = "returned" /\ text.err = ErrNil) =>
        \A i \in 1..Len(OriginalValues) :
            Contains(EngineText, Placeholder(OriginalValues[i])) =>
                Contains(text.result, Placeholder(OriginalValues[i]))

(***************************************************************************)
(* Claims about reads racing with writes, cache keys and the two read      *)
(* paths.                                                                  *)
(***************************************************************************)
\* C27: whenever a read and a save of the same key have both returned, however
\* their statements interleaved, the key's cache entry is absent or holds the
\* payload that is in version 2 now: a reader that fetched the old row before
\* the write cannot put it back into the cache after the writer's invalidation.
C27_NoStaleRepopulation ==
    (procs["p1"].pc = "idle" /\ procs["p2"].pc = "idle") =>
        (TranslationKey("c1", "en", StageDraft) \in DOMAIN cache =>
             Unmarshal(cache[TranslationKey("c1", "en", StageDraft)]).data
                 \in {r.data : r \in WhereActive(rows, "c1", "en", StageDraft, 2)})

\* C29: distinct (component, locale, stage) keys never share a cache entry,
\* whatever the locale tag and the stage label are, a ":" in them included: a
\* successful read of a key returns a row of that key, never the cached row of
\* another key.
C29_ReadServesOwnKey ==
    (lastOp.op = "Read" /\ lastOp.err = ErrNil) =>
        /\ lastOp.val.comp = lastOp.comp
        /\ lastOp.val.locale = lastOp.locale
        /\ lastOp.val.stage = lastOp.stage

RECURSIVE ReadEach(_, _, _, _, _)
\* The single-key reads of ids[i], ids[i + 1], ... one after the other from the
\* cache ch: the rows of the reads that succeeded (res), the errors of the
\* others (errs) and the cache they leave.
ReadEach(ids, i, ch, res, errs) ==
    IF i > Len(ids) THEN {[res |-> res, errs |-> errs, cache |-> ch]}
    ELSE UNION {IF o.err = ErrNil
                THEN ReadEach(ids, i + 1, o.cache, (ids[i] :> o.val) @@ res, errs)
                ELSE ReadEach(ids, i + 1, o.cache, res, (ids[i] :> o.err) @@ errs)
                : o \in GetTranslation(rows, ch, cacheUp, ids[i], "en", StageDraft, "none")}

\* C30: with no store failure, in every state of the store and the cache and
\* for every requested list, the bulk read returns what the single-key reads of
\* the listed components return: a component is in the map with the row its
\* single-key read returns, it is left out exactly when that read fails with
\* "record not found", and both ways leave the same cache.  The states are
\* those in which no save is under way.
C30_BulkAgreesWithSingle ==
    \A ids \in {r \in BulkRequests : Quiet} :
        \A x \in ReadEach(ids, 1, cache, NoRes, NoRes) :
            /\ DOMAIN x.res \cup DOMAIN x.errs = Range(ids)
            /\ \A c \in DOMAIN x.errs : x.errs[c] = ErrRecordNotFound
            /\ \A o \in GetMultipleTranslations(rows, cache, cacheUp, ids, "en", StageDraft,
                                                 "none") :
                   o.res = x.res /\ o.cache = x.cache

====
